---------------------------- MODULE Spec2Model ----------------------------
(***************************************************************************)
(* Model of src/main.py: the Blovi contact endpoint.                       *)
(*                                                                         *)
(* A Python str is a sequence of symbols; a symbol is one character or an  *)
(* opaque run of non-whitespace, markup-free characters ("Ada",            *)
(* "smtp.gmail.com").  An Optional[str] is None (<<>>) or Some(s) (<<s>>). *)
(* The process environment is a record of Optional[str], one field per     *)
(* variable main.py reads.                                                 *)
(***************************************************************************)
EXTENDS Naturals, Sequences, FiniteSets

VARIABLES
    env,            \* os.environ, restricted to the variables main.py reads
    TARGET_EMAIL,   \* module global, assigned once at import (lines 30-35)
    pc,             \* position of the request being served
    payload,        \* ContactEmailRequest of the request being served
    html_body,      \* local of contact_email
    cfg,            \* local of send_via_smtp: result of resolve_smtp_config()
    smtp_err,       \* str(smtp_err) of the except clause, None outside it
    trace,          \* calls and outbound network operations of this request
    response,       \* what the last handler returned or raised
    outbox          \* messages handed to a provider in this process lifetime

vars == <<env, TARGET_EMAIL, pc, payload, html_body, cfg, smtp_err, trace,
          response, outbox>>

----------------------------------------------------------------------------
(* Bounds of the model *)

MaxPassLen == 2      \* longest app-password enumerated, in symbols

----------------------------------------------------------------------------
(* Python values *)

None == <<>>
Some(s) == <<s>>

\* Python truthiness of an Optional[str]: None and "" are falsy
Truthy(o) == o # None /\ o[1] # <<>>

\* a or b
Or(a, b) == IF Truthy(a) THEN a ELSE b

\* os.getenv(k, default)
GetenvD(e, k, default) == IF e[k] = None THEN default ELSE e[k][1]

\* characters matched by the regex class \s, among the symbols enumerated
Whitespace == {" ", "\t"}

Digits == {"0", "1", "2", "3", "4", "5", "6", "7", "8", "9"}

DigitVal(c) ==
    CASE c = "0" -> 0 [] c = "1" -> 1 [] c = "2" -> 2 [] c = "3" -> 3
      [] c = "4" -> 4 [] c = "5" -> 5 [] c = "6" -> 6 [] c = "7" -> 7
      [] c = "8" -> 8 [] c = "9" -> 9

\* whether int(s) returns: s is a non-empty run of decimal digits
\* (signs, underscores and surrounding blanks are outside the enumerated ports)
IsIntLiteral(s) == s # <<>> /\ \A i \in 1..Len(s) : s[i] \in Digits

RECURSIVE IntOf(_)
IntOf(s) ==
    IF s = <<>> THEN 0
    ELSE 10 * IntOf(SubSeq(s, 1, Len(s) - 1)) + DigitVal(s[Len(s)])

\* re.sub(r"\s+", "", s)
StripWhitespace(s) == SelectSeq(s, LAMBDA c : c \notin Whitespace)

DefaultPortText == <<"5", "8", "7">>
GmailHost == <<"smtp.gmail.com">>
GmailPort == 587
DefaultFromName == <<"Blovi Site">>
DefaultTarget == <<"founders@blovi.ai">>

NotConfiguredText ==
    <<"Email service not configured: set SMTP_HOST, SMTP_USER, SMTP_PASS (or GMAIL_USER + GMAIL_APP_PASSWORD)">>

\* str(ValueError) of int(s)
ValueErrorText(s) == <<"invalid literal for int() with base 10: ">> \o s

----------------------------------------------------------------------------
(* resolve_smtp_config, lines 46-77.  Returns [kind |-> "None"], a config  *)
(* record, or [kind |-> "raise"] when int() rejects SMTP_PORT.             *)

NoConfig == [kind |-> "None"]

\* faulty variant: the completeness test forgets the secret
DirectCompleteWithoutPass(e) == Truthy(e.SMTP_HOST) /\ Truthy(e.SMTP_USER)

\* line 54: the explicit SMTP_* triple is complete
DirectComplete(e) ==
    Truthy(e.SMTP_HOST) /\ Truthy(e.SMTP_USER) /\ Truthy(e.SMTP_PASS)

gmail_user(e) == Or(e.GMAIL_USER, e.GOOGLE_GMAIL_USER)
gmail_pass(e) == Or(e.GMAIL_APP_PASSWORD, e.GOOGLE_GMAIL_APP_PASSWORD)

\* lines 54-57: the Gmail branch is entered
GmailBranch(e) ==
    ~DirectComplete(e) /\ Truthy(gmail_user(e)) /\ Truthy(gmail_pass(e))

\* faulty variant: the app-password is used as pasted
NormalizeAppPasswordSkipped(p) == p

\* line 59
NormalizeAppPassword(p) == StripWhitespace(p)

resolve_smtp_config(e) ==
    LET port_text == GetenvD(e, "SMTP_PORT", DefaultPortText) IN
    IF ~IsIntLiteral(port_text)
    THEN [kind |-> "raise", exc |-> "ValueError", text |-> ValueErrorText(port_text)]
    ELSE
      LET gm == GmailBranch(e)
          smtp_host == IF gm THEN Some(GmailHost) ELSE e.SMTP_HOST
          smtp_port == IF gm THEN GmailPort ELSE IntOf(port_text)
          smtp_user == IF gm THEN gmail_user(e) ELSE e.SMTP_USER
          smtp_pass == IF gm THEN Some(NormalizeAppPassword(gmail_pass(e)[1]))
                             ELSE e.SMTP_PASS
      IN  IF ~(Truthy(smtp_host) /\ Truthy(smtp_user) /\ Truthy(smtp_pass))
          THEN NoConfig
          ELSE [kind       |-> "cfg",
                host       |-> smtp_host[1],
                port       |-> smtp_port,
                user       |-> smtp_user[1],
                pass       |-> smtp_pass[1],
                from_name  |-> GetenvD(e, "FROM_NAME", DefaultFromName),
                from_email |-> GetenvD(e, "FROM_EMAIL", smtp_user[1])]


----------------------------------------------------------------------------
(* Module import, lines 30-35 *)

ResolveTarget(e) ==
    LET picked == Or(Or(e.CONTACT_TARGET_EMAIL, e.RECEIVER_EMAIL), e.TARGET_EMAIL)
    IN  IF Truthy(picked) THEN picked[1] ELSE DefaultTarget

----------------------------------------------------------------------------
(* contact_email, lines 133-157: rendering of the notification body *)

Label(f) ==
    CASE f = "name"    -> "<b>Name:</b> "
      [] f = "company" -> "<b>Company:</b> "
      [] f = "email"   -> "<b>Email:</b> "
      [] f = "phone"   -> "<b>Phone:</b> "
      [] f = "source"  -> "<b>Source:</b> "
      [] f = "message" -> "<b>Message</b><br/>"

\* the fields appended to `details`, in the order of lines 137-146
DetailFields == <<"name", "company", "email", "phone", "source">>

\* faulty variant: a field is shown whenever it was sent, empty or not
FieldShownWhenSet(v) == v # None

\* `if payload.f:` of lines 137-146 and `if message_html` of line 155
FieldShown(v) == Truthy(v)

\* lines 136-146: the list of detail lines, each a str
RECURSIVE DetailsFrom(_, _)
DetailsFrom(p, fs) ==
    IF fs = <<>> THEN <<>>
    ELSE (IF FieldShown(p[Head(fs)])
          THEN <<(<<Label(Head(fs))>> \o p[Head(fs)][1])>>
          ELSE <<>>) \o DetailsFrom(p, Tail(fs))

details(p) == DetailsFrom(p, DetailFields)

\* sep.join(lines)
RECURSIVE Join(_, _)
Join(sep, lines) ==
    IF lines = <<>> THEN <<>>
    ELSE IF Len(lines) = 1 THEN lines[1]
    ELSE lines[1] \o <<sep>> \o Join(sep, Tail(lines))

\* line 148
message_html(p) == IF Truthy(p.message) THEN p.message[1] ELSE <<>>

\* lines 150-157
Render(p, ts) ==
    <<"<div>", "<h2>New contact from Blovi site</h2>", "<p>Received at ">> \o ts \o <<"</p>">>
    \o (IF details(p) # <<>>
        THEN <<"<p>">> \o Join("<br/>", details(p)) \o <<"</p>">>
        ELSE <<>>)
    \o (IF message_html(p) # <<>>
        THEN <<"<div>", Label("message")>> \o message_html(p) \o <<"</div>">>
        ELSE <<>>)
    \o <<"</div>">>

----------------------------------------------------------------------------
(* send_via_mailgun, lines 98-119 *)

\* line 102: (FROM_EMAIL or f"no-reply@{domain}") if domain else None
mailgun_from_email(e) ==
    IF Truthy(e.MAILGUN_DOMAIN)
    THEN Or(e.FROM_EMAIL, Some(<<"no-reply@">> \o e.MAILGUN_DOMAIN[1]))
    ELSE None

\* faulty variant: the sender address is not derived from the domain
MailgunConfiguredNeedsFromEmail(e) ==
    Truthy(e.MAILGUN_API_KEY) /\ Truthy(e.MAILGUN_DOMAIN) /\ Truthy(e.FROM_EMAIL)

\* line 104, negated
MailgunConfigured(e) ==
    Truthy(e.MAILGUN_API_KEY) /\ Truthy(e.MAILGUN_DOMAIN) /\ Truthy(mailgun_from_email(e))

\* what requests.post(..., timeout=20) can end in: a final response of some
\* status class, or an exception (timeout, connection error)
HttpOutcomes == {"2xx", "3xx", "4xx", "5xx", "exception"}

\* lines 115-119: r.raise_for_status() raises for 4xx and 5xx only
PostReturnsTrue(outcome) == outcome \notin {"4xx", "5xx", "exception"}

\* str() of what the try block of lines 114-119 swallowed
FallbackErrorText(outcome) ==
    CASE outcome = "4xx" -> <<"401 Client Error: Unauthorized">>
      [] outcome = "5xx" -> <<"500 Server Error: Internal Server Error">>
      [] outcome = "exception" -> <<"HTTPSConnectionPool: Read timed out.">>
      [] OTHER -> <<>>

----------------------------------------------------------------------------
(* send_via_smtp, lines 80-95, and the handler's try/except, lines 160-168 *)

NoResponse == [kind |-> "none"]
OkResponse == [kind |-> "json", status |-> 200, ok |-> TRUE]
ViaResponse == [kind |-> "json", status |-> 200, ok |-> TRUE, via |-> "mailgun"]

\* faulty variant: the detail reports the fallback's error instead of the primary's
ErrorDetailFromFallback(primary_text, fallback_text) ==
    <<"Email send failed: ">> \o fallback_text

\* line 168
ErrorDetail(primary_text, fallback_text) == <<"Email send failed: ">> \o primary_text
ErrorResponse(primary_text, fallback_text) ==
    [kind |-> "http_exception", status |-> 500,
     detail |-> ErrorDetail(primary_text, fallback_text)]

\* an exception that leaves the handler untranslated
Unhandled(exc) == [kind |-> "unhandled", exc |-> exc]

\* faulty variant: the handler catches only the errors smtplib and send_via_smtp raise
ExceptCatchesSmtpOnly(exc) == exc \in {"RuntimeError", "SMTPException"}

\* line 163: `except Exception` catches every class raised below it
ExceptCatches(exc) == exc \in {"ValueError", "RuntimeError", "OSError", "SMTPException"}

Ev(op, ev) == [op |-> op, ev |-> ev]

\* the step that follows op in the `with` block of lines 92-95
\* faulty variant: the session goes from STARTTLS straight to sendmail
StepAfterSkipsLogin(op) ==
    CASE op = "connect"  -> "starttls"
      [] op = "starttls" -> "sendmail"
      [] op = "login"    -> "sendmail"

StepAfter(op) ==
    CASE op = "connect"  -> "starttls"
      [] op = "starttls" -> "login"
      [] op = "login"    -> "sendmail"

\* the exception each step raises and its text
StepExc(op) == IF op = "connect" THEN "OSError" ELSE "SMTPException"
StepErrorText(op) ==
    CASE op = "connect"  -> <<"[Errno 111] Connection refused">>
      [] op = "starttls" -> <<"STARTTLS extension not supported by server.">>
      [] op = "login"    -> <<"(535, b'Username and Password not accepted')">>
      [] op = "sendmail" -> <<"{'rcpt': (550, b'mailbox unavailable')}">>

\* faulty variant: the recipient is looked up in the environment at each send
RecipientsFromEnv(e, target) == <<ResolveTarget(e)>>

\* the recipient list of lines 95 and 110
Recipients(e, target) == <<target>>

\* faulty variant: a failed primary send is retried instead of falling back
ExceptClauseRetries == "send_via_smtp"

\* where control goes when send_via_smtp raised a caught exception: the
\* except clause, whose first statement calls send_via_mailgun (lines 163-165)
ExceptClause == "except"


----------------------------------------------------------------------------
(* Inputs enumerated *)

Opt(S) == {None} \cup {Some(s) : s \in S}
SeqsUpTo(S, n) == UNION {[1..k -> S] : k \in 0..n}

EmptyStr == <<>>
Unset == {None}

Timestamps == {<<"2024-05-01 10:00:00 UTC">>, <<"2024-05-01 10:00:01 UTC">>}

\* request bodies that pass validation: EmailStr rejects "" (line 40)
AllPayloads ==
    [name    : Opt({EmptyStr, <<"Ada">>}),
     company : Opt({EmptyStr, <<"Blovi">>}),
     email   : Opt({<<"ada@example.com">>}),
     phone   : Opt({EmptyStr, <<"555">>}),
     message : Opt({EmptyStr, <<"Hello">>}),
     source  : Opt({EmptyStr, <<"modal">>})]

EmptyPayload ==
    [name |-> None, company |-> None, email |-> None, phone |-> None,
     message |-> None, source |-> None]

SomePayloads ==
    {EmptyPayload,
     [EmptyPayload EXCEPT !.name = Some(<<"Ada">>), !.message = Some(<<"Hello">>)]}

\* environments of the request-flow specification
FlowEnvs ==
    [SMTP_HOST : Opt({<<"smtp.example.com">>}),
     SMTP_PORT : Opt({<<"2", "5">>, <<"x">>}),
     SMTP_USER : Opt({<<"mailer@example.com">>}),
     SMTP_PASS : Opt({<<"s3cret">>}),
     GMAIL_USER : Opt({<<"ops@gmail.com">>}),
     GOOGLE_GMAIL_USER : Unset,
     GMAIL_APP_PASSWORD : Opt({<<"a", " ", "b">>}),
     GOOGLE_GMAIL_APP_PASSWORD : Unset,
     FROM_NAME : Unset,
     FROM_EMAIL : Opt({<<"site@blovi.ai">>}),
     MAILGUN_API_KEY : Opt({EmptyStr, <<"key-1">>}),
     MAILGUN_DOMAIN : Opt({EmptyStr, <<"mg.blovi.ai">>}),
     CONTACT_TARGET_EMAIL : Unset,
     RECEIVER_EMAIL : Unset,
     TARGET_EMAIL : Unset]

\* environments of the resolver specification: every variable that
\* resolve_smtp_config reads takes unset, empty and non-empty values
ResolveEnvs ==
    [SMTP_HOST : Opt({EmptyStr, <<"smtp.example.com">>}),
     SMTP_PORT : Opt({EmptyStr, <<"2", "5">>, <<"x">>}),
     SMTP_USER : Opt({EmptyStr, <<"mailer@example.com">>}),
     SMTP_PASS : Opt({EmptyStr, <<"s3", " ", "cret">>}),
     GMAIL_USER : Opt({EmptyStr, <<"ops@gmail.com">>}),
     GOOGLE_GMAIL_USER : Opt({<<"ops2@gmail.com">>}),
     GMAIL_APP_PASSWORD : Opt(SeqsUpTo({"a", " "}, MaxPassLen)),
     GOOGLE_GMAIL_APP_PASSWORD : Opt({<<"\t">>, <<"b">>}),
     FROM_NAME : Opt({<<"Blovi">>}),
     FROM_EMAIL : Opt({<<"site@blovi.ai">>}),
     MAILGUN_API_KEY : Unset,
     MAILGUN_DOMAIN : Unset,
     CONTACT_TARGET_EMAIL : Unset,
     RECEIVER_EMAIL : Unset,
     TARGET_EMAIL : Unset]

\* environments of the process-lifetime specification: the recipient
\* overrides and the transport settings change while the process runs
LifetimeEnvs ==
    [SMTP_HOST : Opt({<<"smtp.example.com">>}),
     SMTP_PORT : Unset,
     SMTP_USER : {Some(<<"mailer@example.com">>)},
     SMTP_PASS : {Some(<<"s3cret">>)},
     GMAIL_USER : Unset,
     GOOGLE_GMAIL_USER : Unset,
     GMAIL_APP_PASSWORD : Unset,
     GOOGLE_GMAIL_APP_PASSWORD : Unset,
     FROM_NAME : Unset,
     FROM_EMAIL : Unset,
     MAILGUN_API_KEY : {Some(<<"key-1">>)},
     MAILGUN_DOMAIN : Opt({<<"mg.blovi.ai">>}),
     CONTACT_TARGET_EMAIL : Opt({EmptyStr, <<"contact@blovi.ai">>}),
     RECEIVER_EMAIL : Opt({<<"receiver@blovi.ai">>}),
     TARGET_EMAIL : Opt({<<"target@blovi.ai">>})]

----------------------------------------------------------------------------
(* The process *)

\* state after import: TARGET_EMAIL resolved, no request served yet
InitWith(envs) ==
    /\ env \in envs
    /\ TARGET_EMAIL = ResolveTarget(env)
    /\ pc = "idle"
    /\ payload = EmptyPayload
    /\ html_body = <<>>
    /\ cfg = NoConfig
    /\ smtp_err = None
    /\ trace = <<>>
    /\ response = NoResponse
    /\ outbox = {}

\* GET /test, lines 122-128; the locals of the previous request are gone
test(ts) ==
    /\ pc = "idle"
    /\ response' = [kind |-> "json", status |-> 200, ok |-> TRUE, time |-> ts,
                    target_email |-> TARGET_EMAIL]
    /\ payload' = EmptyPayload
    /\ html_body' = <<>>
    /\ cfg' = NoConfig
    /\ smtp_err' = None
    /\ trace' = <<>>
    /\ UNCHANGED <<env, TARGET_EMAIL, pc, outbox>>

\* POST /contact/email, lines 132-161: render the body, enter send_via_smtp
contact_email(p, ts) ==
    /\ pc = "idle"
    /\ payload' = p
    /\ html_body' = Render(p, ts)
    /\ cfg' = NoConfig
    /\ smtp_err' = None
    /\ trace' = <<Ev("send_via_smtp", "call")>>
    /\ response' = NoResponse
    /\ pc' = "send_via_smtp"
    /\ UNCHANGED <<env, TARGET_EMAIL, outbox>>

\* send_via_smtp raises exc with str(exc) = text: lines 160-163
PrimaryRaises(exc, text, tr) ==
    IF ExceptCatches(exc)
    THEN /\ smtp_err' = Some(text)
         /\ trace' = Append(tr, Ev("send_via_smtp", "raise"))
         /\ pc' = ExceptClause
         /\ response' = response
    ELSE /\ smtp_err' = smtp_err
         /\ trace' = Append(tr, Ev("send_via_smtp", "raise"))
         /\ pc' = "idle"
         /\ response' = Unhandled(exc)

\* lines 81-85
SmtpResolve ==
    /\ pc = "send_via_smtp"
    /\ LET r == resolve_smtp_config(env) IN
       CASE r.kind = "raise" ->
              /\ PrimaryRaises(r.exc, r.text, trace)
              /\ cfg' = cfg
         [] r.kind = "None" ->
              /\ PrimaryRaises("RuntimeError", NotConfiguredText, trace)
              /\ cfg' = cfg
         [] r.kind = "cfg" ->
              /\ cfg' = r
              /\ pc' = "connect"
              /\ UNCHANGED <<smtp_err, trace, response>>
    /\ UNCHANGED <<env, TARGET_EMAIL, payload, html_body, outbox>>

\* one of smtplib.SMTP(...), starttls(), login(): lines 92-94
SmtpStep(op, ok) ==
    /\ pc = op
    /\ IF ok
       THEN /\ trace' = Append(trace, Ev(op, "ok"))
            /\ pc' = StepAfter(op)
            /\ UNCHANGED <<smtp_err, response>>
       ELSE PrimaryRaises(StepExc(op), StepErrorText(op), Append(trace, Ev(op, "fail")))
    /\ UNCHANGED <<env, TARGET_EMAIL, payload, html_body, cfg, outbox>>

SmtpConnect == \E ok \in BOOLEAN : SmtpStep("connect", ok)
SmtpStarttls == \E ok \in BOOLEAN : SmtpStep("starttls", ok)
SmtpLogin == \E ok \in BOOLEAN : SmtpStep("login", ok)

\* sendmail, line 95, then `return {"ok": True}`, line 162
SmtpSendmail ==
    /\ pc = "sendmail"
    /\ outbox' = outbox \cup {[via |-> "smtp", to |-> Recipients(env, TARGET_EMAIL)]}
    /\ \E ok \in BOOLEAN :
         IF ok
         THEN /\ trace' = trace \o <<Ev("sendmail", "ok"), Ev("send_via_smtp", "return")>>
              /\ pc' = "idle"
              /\ response' = OkResponse
              /\ smtp_err' = smtp_err
         ELSE PrimaryRaises(StepExc("sendmail"), StepErrorText("sendmail"),
                            Append(trace, Ev("sendmail", "fail")))
    /\ UNCHANGED <<env, TARGET_EMAIL, payload, html_body, cfg>>

\* the handler's answer once send_via_mailgun returned: lines 165-168
AfterFallback(returned, fallback_text) ==
    IF returned THEN ViaResponse ELSE ErrorResponse(smtp_err[1], fallback_text)

\* send_via_mailgun up to the configuration test: lines 99-105
send_via_mailgun ==
    /\ pc = "except"
    /\ IF MailgunConfigured(env)
       THEN /\ trace' = Append(trace, Ev("send_via_mailgun", "call"))
            /\ pc' = "http_post"
            /\ response' = response
       ELSE /\ trace' = trace \o <<Ev("send_via_mailgun", "call"),
                                   Ev("send_via_mailgun", "return_false")>>
            /\ pc' = "idle"
            /\ response' = AfterFallback(FALSE, <<>>)
    /\ UNCHANGED <<env, TARGET_EMAIL, payload, html_body, cfg, smtp_err, outbox>>

\* requests.post and raise_for_status: lines 107-119, then lines 165-168
MailgunPost ==
    /\ pc = "http_post"
    /\ outbox' = outbox \cup {[via |-> "mailgun", to |-> Recipients(env, TARGET_EMAIL)]}
    /\ \E outcome \in HttpOutcomes :
         LET returned == PostReturnsTrue(outcome) IN
         /\ trace' = trace \o <<Ev("http_post", outcome),
                                Ev("send_via_mailgun",
                                   IF returned THEN "return_true" ELSE "return_false")>>
         /\ response' = AfterFallback(returned, FallbackErrorText(outcome))
    /\ pc' = "idle"
    /\ UNCHANGED <<env, TARGET_EMAIL, payload, html_body, cfg, smtp_err>>

\* os.environ changes between requests
Setenv ==
    /\ pc = "idle"
    /\ env' \in LifetimeEnvs
    /\ env' # env
    /\ UNCHANGED <<TARGET_EMAIL, pc, payload, html_body, cfg, smtp_err, trace,
                   response, outbox>>

Deliver ==
    \/ SmtpResolve
    \/ SmtpConnect
    \/ SmtpStarttls
    \/ SmtpLogin
    \/ SmtpSendmail
    \/ send_via_mailgun
    \/ MailgunPost

Init == InitWith(FlowEnvs)

Next ==
    \/ \E ts \in Timestamps : test(ts)
    \/ \E p \in SomePayloads, ts \in Timestamps : contact_email(p, ts)
    \/ Deliver

Spec == Init /\ [][Next]_vars


\* the resolver alone: one request enters send_via_smtp and resolves
InitResolve == InitWith(ResolveEnvs)
NextResolve ==
    \/ \E ts \in Timestamps : contact_email(EmptyPayload, ts)
    \/ SmtpResolve
SpecResolve == InitResolve /\ [][NextResolve]_vars

\* the renderer alone: every valid request body
InitRender == InitWith({CHOOSE e \in FlowEnvs : \A k \in DOMAIN e : e[k] = None})
NextRender == \E p \in AllPayloads, ts \in Timestamps : contact_email(p, ts)
SpecRender == InitRender /\ [][NextRender]_vars

\* one process lifetime with the environment changing between requests
InitLifetime == InitWith(LifetimeEnvs)
NextLifetime ==
    \/ Setenv
    \/ \E ts \in Timestamps : test(ts)
    \/ \E ts \in Timestamps : contact_email(EmptyPayload, ts)
    \/ Deliver
SpecLifetime == InitLifetime /\ [][NextLifetime]_vars

----------------------------------------------------------------------------
(* Reading the trace of a request *)

Range(s) == {s[i] : i \in 1..Len(s)}
Occurrences(s, x) == Cardinality({i \in 1..Len(s) : s[i] = x})

\* a contact request has been answered
Completed == pc = "idle" /\ trace # <<>>

PrimaryOps == {"connect", "starttls", "login", "sendmail"}
NetOps == PrimaryOps \cup {"http_post"}

PrimaryReturned == Ev("send_via_smtp", "return") \in Range(trace)
PrimaryRaised == Ev("send_via_smtp", "raise") \in Range(trace)
FallbackTrue == Ev("send_via_mailgun", "return_true") \in Range(trace)
FallbackFalse == Ev("send_via_mailgun", "return_false") \in Range(trace)

----------------------------------------------------------------------------
(* C1: every answered contact request ended in exactly one of three ways:  *)
(* the primary send returned and the answer is {ok: true} without `via`;   *)
(* the primary raised, the fallback returned true and the answer is        *)
(* {ok: true, via: "mailgun"}; both failed and the answer is an HTTP 500   *)
(* whose detail carries the primary's error text, not the fallback's.      *)

C1_PrimaryOutcome ==
    /\ PrimaryReturned /\ ~PrimaryRaised /\ ~FallbackTrue /\ ~FallbackFalse
    /\ response.kind = "json" /\ response.status = 200 /\ response.ok
    /\ DOMAIN response = {"kind", "status", "ok"}

C1_FallbackOutcome ==
    /\ PrimaryRaised /\ ~PrimaryReturned /\ FallbackTrue /\ ~FallbackFalse
    /\ response.kind = "json" /\ response.status = 200 /\ response.ok
    /\ DOMAIN response = {"kind", "status", "ok", "via"}
    /\ response.via = "mailgun"

C1_ErrorOutcome ==
    /\ PrimaryRaised /\ ~PrimaryReturned /\ FallbackFalse /\ ~FallbackTrue
    /\ response.kind = "http_exception" /\ response.status = 500
    /\ smtp_err # None
    /\ response.detail = <<"Email send failed: ">> \o smtp_err[1]
    /\ \A o \in HttpOutcomes :
         (Ev("http_post", o) \in Range(trace) /\ FallbackErrorText(o) # <<>>)
            => Occurrences(response.detail, FallbackErrorText(o)[1]) = 0

C1_ThreeOutcomes ==
    Completed =>
        \/ C1_PrimaryOutcome
        \/ C1_FallbackOutcome
        \/ C1_ErrorOutcome

\* both sends failed after the provider was asked, and the 500 was returned
C1_Witness ==
    /\ Completed
    /\ Ev("http_post", "5xx") \in Range(trace)
    /\ C1_ErrorOutcome

----------------------------------------------------------------------------
(* C2: within one contact request the delivery attempts are sequential and *)
(* bounded: send_via_smtp is entered once and each of its network steps    *)
(* runs at most once, send_via_mailgun is entered at most once and posts   *)
(* at most once, the fallback starts only after the primary has raised,    *)
(* never after it returned, and nothing of the primary runs again after it *)
(* raised.                                                                 *)

IsPrimaryEvent(e) == e.op = "send_via_smtp" \/ e.op \in PrimaryOps
IsFallbackEvent(e) == e.op = "send_via_mailgun" \/ e.op = "http_post"

C2_SequentialBounded ==
    /\ Occurrences(trace, Ev("send_via_smtp", "call")) <= 1
    /\ Occurrences(trace, Ev("send_via_mailgun", "call")) <= 1
    /\ \A op \in NetOps :
         Cardinality({i \in 1..Len(trace) : trace[i].op = op}) <= 1
    /\ Cardinality({i \in 1..Len(trace) :
                      trace[i].op = "send_via_smtp" /\ trace[i].ev # "call"}) <= 1
    /\ \A j \in 1..Len(trace) :
         IsFallbackEvent(trace[j]) =>
            /\ \E i \in 1..(j - 1) : trace[i] = Ev("send_via_smtp", "raise")
            /\ ~PrimaryReturned
    /\ \A i, j \in 1..Len(trace) :
         (trace[i] = Ev("send_via_smtp", "raise") /\ i < j) => ~IsPrimaryEvent(trace[j])
    /\ (pc \in PrimaryOps \cup {"send_via_smtp"}) => ~PrimaryRaised

\* the primary failed in its session and the fallback then posted
C2_Witness ==
    /\ Ev("login", "fail") \in Range(trace)
    /\ \E o \in HttpOutcomes : Ev("http_post", o) \in Range(trace)

----------------------------------------------------------------------------
(* C3 as stated: with no primary configuration and the fallback configured *)
(* (API key, domain, resolvable sender), the contact request is answered   *)
(* {ok: true, via: "mailgun"}.                                             *)

PrimaryAbsent == resolve_smtp_config(env) = NoConfig

\* FROM_EMAIL, or no-reply@<domain>
SenderResolvable == Truthy(env.FROM_EMAIL) \/ Truthy(env.MAILGUN_DOMAIN)

FallbackPresent ==
    Truthy(env.MAILGUN_API_KEY) /\ Truthy(env.MAILGUN_DOMAIN) /\ SenderResolvable

C3_AlwaysViaFallback ==
    (Completed /\ PrimaryAbsent /\ FallbackPresent) =>
        (response.kind = "json" /\ response = [kind |-> "json", status |-> 200,
                                               ok |-> TRUE, via |-> "mailgun"])

(* C3 amended: in that configuration the request makes no SMTP network     *)
(* operation and exactly one HTTP POST; it is answered {ok: true, via:     *)
(* "mailgun"} when the POST ends in a 2xx status, and with the HTTP 500    *)
(* carrying the not-configured text when the POST ends in a 4xx or 5xx     *)
(* status or in an exception.                                              *)

C3_ViaFallbackWhenProviderAccepts ==
    (Completed /\ PrimaryAbsent /\ FallbackPresent) =>
        /\ \A e \in Range(trace) : e.op \notin PrimaryOps
        /\ Cardinality({i \in 1..Len(trace) : trace[i].op = "http_post"}) = 1
        /\ Ev("http_post", "2xx") \in Range(trace) =>
              response = [kind |-> "json", status |-> 200, ok |-> TRUE, via |-> "mailgun"]
        /\ (\E o \in {"4xx", "5xx", "exception"} : Ev("http_post", o) \in Range(trace)) =>
              response = [kind |-> "http_exception", status |-> 500,
                          detail |-> <<"Email send failed: ">> \o NotConfiguredText]

\* no SMTP settings, Mailgun configured without FROM_EMAIL, provider said 2xx
C3_Witness ==
    /\ Completed /\ PrimaryAbsent /\ FallbackPresent
    /\ env.FROM_EMAIL = None
    /\ Ev("http_post", "2xx") \in Range(trace)
    /\ response.kind = "json" /\ "via" \in DOMAIN response

----------------------------------------------------------------------------
(* C4: with neither provider configured the contact request is answered    *)
(* with an HTTP 500 carrying a text and no outbound network operation was  *)
(* made; and whatever the configuration (a non-numeric port included) and  *)
(* whatever the providers do, an answered request ended in a JSON answer   *)
(* or that HTTP 500, never in an exception that left the handler.          *)

NeitherConfigured ==
    /\ resolve_smtp_config(env).kind # "cfg"
    /\ ~(Truthy(env.MAILGUN_API_KEY) /\ Truthy(env.MAILGUN_DOMAIN))

C4_OnlyTranslatedFailure ==
    /\ response.kind # "unhandled"
    /\ Completed =>
         /\ response.kind \in {"json", "http_exception"}
         /\ response.kind = "http_exception" =>
              /\ response.status = 500
              /\ Len(response.detail) > 1
         /\ NeitherConfigured =>
              /\ response.kind = "http_exception"
              /\ response.status = 500
              /\ \A e \in Range(trace) : e.op \notin NetOps

\* nothing configured and SMTP_PORT not a number: still the translated 500
C4_Witness ==
    /\ Completed /\ NeitherConfigured
    /\ env.SMTP_PORT = Some(<<"x">>)
    /\ response.kind = "http_exception"
    /\ response.detail = <<"Email send failed: ">> \o ValueErrorText(<<"x">>)


----------------------------------------------------------------------------
(* Reading the outcome of resolve_smtp_config off the state that follows   *)
(* lines 81-85                                                             *)

Resolved == pc \in {"connect", "except"} /\ Len(trace) <= 2

ObservedKind ==
    IF pc = "connect" THEN "cfg"
    ELSE IF smtp_err = Some(NotConfiguredText) THEN "None"
    ELSE "raise"

\* the secret resolved, None when no config was returned
ObservedSecret == IF pc = "connect" THEN Some(cfg.pass) ELSE None
SecretOf(r) == IF r.kind = "cfg" THEN Some(r.pass) ELSE None

IsSet(o) == o # None
NonEmpty(o) == o # None /\ o[1] # <<>>
FirstNonEmpty(a, b) == IF NonEmpty(a) THEN a ELSE b
WithoutWhitespace(s) == SelectSeq(s, LAMBDA c : c # " " /\ c # "\t")
AllDigits(s) == s # <<>> /\ \A i \in 1..Len(s) : s[i] \in Digits

PortRejected == IsSet(env.SMTP_PORT) /\ ~AllDigits(env.SMTP_PORT[1])

GmailUserPicked == FirstNonEmpty(env.GMAIL_USER, env.GOOGLE_GMAIL_USER)
AppPasswordPicked ==
    FirstNonEmpty(env.GMAIL_APP_PASSWORD, env.GOOGLE_GMAIL_APP_PASSWORD)
AppPasswordHolder ==
    IF NonEmpty(env.GMAIL_APP_PASSWORD) THEN "GMAIL_APP_PASSWORD"
    ELSE "GOOGLE_GMAIL_APP_PASSWORD"

ObservedDirect ==
    /\ ObservedKind = "cfg"
    /\ cfg.host = env.SMTP_HOST[1]
    /\ cfg.user = env.SMTP_USER[1]
    /\ cfg.pass = env.SMTP_PASS[1]
    /\ cfg.port = IF IsSet(env.SMTP_PORT) THEN IntOf(env.SMTP_PORT[1]) ELSE 587

ObservedGmail ==
    /\ ObservedKind = "cfg"
    /\ cfg.host = <<"smtp.gmail.com">>
    /\ cfg.port = 587
    /\ cfg.user = GmailUserPicked[1]
    /\ cfg.pass = WithoutWhitespace(AppPasswordPicked[1])

----------------------------------------------------------------------------
(* C5 as stated, its first clause: the direct config, the one built from   *)
(* the SMTP_* variables, is returned only when host, port, user and secret *)
(* are all four present.                                                   *)

C5_DirectOnlyWithAllFour ==
    (Resolved /\ ObservedKind = "cfg" /\ cfg.host # <<"smtp.gmail.com">>) =>
        /\ IsSet(env.SMTP_HOST)
        /\ IsSet(env.SMTP_PORT)
        /\ IsSet(env.SMTP_USER)
        /\ IsSet(env.SMTP_PASS)

(* C5 amended: resolution raises exactly when SMTP_PORT is set to text     *)
(* that is not an integer, before looking at any source; otherwise it      *)
(* returns the direct config exactly when host, user and secret are all    *)
(* non-empty, the port being optional and 587 when unset; otherwise, with  *)
(* a non-empty Gmail user and app-password, a config whose host, port 587, *)
(* user and secret all come from the Gmail source, or None when the        *)
(* app-password is whitespace only; otherwise None.                        *)

C5_FirstCompleteMatch ==
    Resolved =>
        IF PortRejected THEN ObservedKind = "raise"
        ELSE IF NonEmpty(env.SMTP_HOST) /\ NonEmpty(env.SMTP_USER) /\ NonEmpty(env.SMTP_PASS)
        THEN ObservedDirect
        ELSE IF NonEmpty(GmailUserPicked) /\ NonEmpty(AppPasswordPicked)
        THEN IF WithoutWhitespace(AppPasswordPicked[1]) = <<>>
             THEN ObservedKind = "None"
             ELSE ObservedGmail
        ELSE ObservedKind = "None"

\* host, user and secret set, SMTP_PORT unset: the direct config on port 587
C5_Witness ==
    /\ Resolved
    /\ env.SMTP_PORT = None
    /\ NonEmpty(env.SMTP_HOST) /\ NonEmpty(env.SMTP_USER) /\ NonEmpty(env.SMTP_PASS)
    /\ NonEmpty(env.GMAIL_USER) /\ NonEmpty(env.GMAIL_APP_PASSWORD)
    /\ ObservedDirect
    /\ cfg.port = 587

----------------------------------------------------------------------------
(* C6 as stated: when the Gmail source is used, resolving with an          *)
(* app-password p yields the same secret as resolving with p stripped of   *)
(* whitespace, for every p; stripping is idempotent; a p that is empty     *)
(* once stripped yields None.                                              *)

GmailSourceUsed ==
    /\ Resolved
    /\ ~PortRejected
    /\ ~(NonEmpty(env.SMTP_HOST) /\ NonEmpty(env.SMTP_USER) /\ NonEmpty(env.SMTP_PASS))
    /\ NonEmpty(GmailUserPicked)
    /\ NonEmpty(AppPasswordPicked)

\* the environment with the app-password variable holding p stripped
StrippedEnv ==
    [env EXCEPT ![AppPasswordHolder] = Some(WithoutWhitespace(AppPasswordPicked[1]))]

----------------------------------------------------------------------------
(* C7 as stated: send_via_mailgun never raises; with the API key, the      *)
(* domain or the sender address missing it returns False without an HTTP   *)
(* request; otherwise it posts exactly once and returns True exactly when  *)
(* the request completed with a success (2xx) status.                      *)

FallbackReturned == FallbackTrue \/ FallbackFalse
Posts == Cardinality({i \in 1..Len(trace) : trace[i].op = "http_post"})

C7_TrueExactlyOnSuccessStatus ==
    /\ \A e \in Range(trace) : e.op = "send_via_mailgun" => e.ev # "raise"
    /\ FallbackReturned =>
         IF ~FallbackPresent
         THEN FallbackFalse /\ Posts = 0
         ELSE /\ Posts = 1
              /\ FallbackTrue <=> Ev("http_post", "2xx") \in Range(trace)

----------------------------------------------------------------------------
(* C8 as stated: the body holds exactly one labelled line per field that   *)
(* is present in the submission, in one fixed order, none for an absent    *)
(* field, and only the timestamp line when every field is absent.          *)

Rendered == pc = "send_via_smtp"

FieldOrder == <<"name", "company", "email", "phone", "source", "message">>
Fields == Range(FieldOrder)

Position(f) == CHOOSE i \in 1..Len(html_body) : html_body[i] = Label(f)

\* the label of f occurs once and the value of f follows it
OneLineFor(f) ==
    /\ Occurrences(html_body, Label(f)) = 1
    /\ LET i == Position(f)
           v == payload[f][1]
       IN  /\ i + Len(v) <= Len(html_body)
           /\ SubSeq(html_body, i + 1, i + Len(v)) = v

TimestampOnly ==
    \E ts \in Timestamps :
        html_body = <<"<div>", "<h2>New contact from Blovi site</h2>",
                      "<p>Received at ">> \o ts \o <<"</p>", "</div>">>

LinesFor(shown) ==
    /\ \A f \in shown : OneLineFor(f)
    /\ \A f \in Fields \ shown : Occurrences(html_body, Label(f)) = 0
    /\ \A i, j \in 1..Len(FieldOrder) :
         (i < j /\ FieldOrder[i] \in shown /\ FieldOrder[j] \in shown)
            => Position(FieldOrder[i]) < Position(FieldOrder[j])
    /\ shown = {} => TimestampOnly

C8_LinePerPresentField ==
    Rendered => LinesFor({f \in Fields : payload[f] # None})

(* C8 amended: the body holds exactly one labelled line per field that is  *)
(* present and non-empty, in the fixed order name, company, email, phone,  *)
(* source, message, none for a field that is absent or the empty string,   *)
(* and only the timestamp line when no field is present and non-empty.     *)

C8_LinePerNonEmptyField ==
    Rendered => LinesFor({f \in Fields : NonEmpty(payload[f])})

\* name sent as "", company and message filled in: two lines, no Name line
C8_Witness ==
    /\ Rendered
    /\ payload.name = Some(<<>>)
    /\ payload.company = Some(<<"Blovi">>)
    /\ payload.message = Some(<<"Hello">>)
    /\ Occurrences(html_body, "<b>Name:</b> ") = 0
    /\ Occurrences(html_body, "<b>Company:</b> ") = 1
    /\ Occurrences(html_body, "<b>Message</b><br/>") = 1

----------------------------------------------------------------------------
(* C9: send_via_smtp runs resolve, connect, STARTTLS, login, sendmail in   *)
(* that order; sendmail runs only after STARTTLS and login succeeded in    *)
(* the session and submits to one recipient; nothing is opened when        *)
(* resolution yields no config; a failed step is the last step of the      *)
(* session and send_via_smtp raises with that step's error text.           *)

PrimaryNet == SelectSeq(trace, LAMBDA e : e.op \in PrimaryOps)

C9_OrderedSession ==
    /\ \A i \in 1..Len(PrimaryNet) :
         /\ i <= 4
         /\ PrimaryNet[i].op = <<"connect", "starttls", "login", "sendmail">>[i]
         /\ i < Len(PrimaryNet) => PrimaryNet[i].ev = "ok"
    /\ (\E e \in Range(trace) : e.op = "sendmail") =>
         /\ Ev("starttls", "ok") \in Range(trace)
         /\ Ev("login", "ok") \in Range(trace)
    /\ (pc # "send_via_smtp" /\ trace # <<>> /\ resolve_smtp_config(env).kind # "cfg") =>
         /\ PrimaryNet = <<>>
         /\ pc \notin PrimaryOps
         /\ PrimaryRaised
    /\ (pc \in PrimaryOps) => cfg.kind = "cfg"
    /\ \A i \in 1..Len(trace) :
         (trace[i].op \in PrimaryOps /\ trace[i].ev = "fail") =>
            /\ i < Len(trace)
            /\ trace[i + 1] = Ev("send_via_smtp", "raise")
            /\ smtp_err = Some(StepErrorText(trace[i].op))
    /\ \A m \in outbox : m.via = "smtp" => Len(m.to) = 1

\* a session that went all the way to an accepted message
C9_Witness ==
    /\ trace = <<Ev("send_via_smtp", "call"), Ev("connect", "ok"), Ev("starttls", "ok"),
                 Ev("login", "ok"), Ev("sendmail", "ok"), Ev("send_via_smtp", "return")>>
    /\ [via |-> "smtp", to |-> <<TARGET_EMAIL>>] \in outbox

----------------------------------------------------------------------------
(* C10: TARGET_EMAIL is, from the first state on, the first non-empty of   *)
(* CONTACT_TARGET_EMAIL, RECEIVER_EMAIL and TARGET_EMAIL as the            *)
(* environment stood at import, else the default; no step changes it,      *)
(* neither a request nor a change of the environment; every message handed *)
(* to either provider goes to that one address; and the config a session   *)
(* uses is the one the environment yields at that send.                    *)

FirstNonEmptyTarget(e) ==
    IF NonEmpty(e.CONTACT_TARGET_EMAIL) THEN e.CONTACT_TARGET_EMAIL[1]
    ELSE IF NonEmpty(e.RECEIVER_EMAIL) THEN e.RECEIVER_EMAIL[1]
    ELSE IF NonEmpty(e.TARGET_EMAIL) THEN e.TARGET_EMAIL[1]
    ELSE <<"founders@blovi.ai">>

C10_FixedRecipient ==
    /\ TARGET_EMAIL = FirstNonEmptyTarget(env)
    /\ [][TARGET_EMAIL' = TARGET_EMAIL]_vars
    /\ [](\A m \in outbox : m.to = <<TARGET_EMAIL>>)
    /\ [](pc \in PrimaryOps => cfg = resolve_smtp_config(env))

\* both providers were handed a message after the environment had come to
\* name another recipient and another transport
C10_Witness ==
    /\ FirstNonEmptyTarget(env) # TARGET_EMAIL
    /\ Cardinality(outbox) = 2
    /\ Ev("sendmail", "ok") \in Range(trace)
    /\ \A m \in outbox : m.to = <<TARGET_EMAIL>>


=============================================================================
